---- MODULE Spec2Model ----
(***************************************************************************)
(* Model of src/src/preprocessing/preprocessing_with_image.py:             *)
(* the figure pipeline analyze_layout (layout analysis, per-region crop,   *)
(* PNG write, description request, markdown patch, heading normalisation)  *)
(* and the pure string function update_figure_description.                 *)
(*                                                                         *)
(* Python strings are sequences of one-character strings; positions are    *)
(* 0-based as in Python, so find/slice arithmetic is the code's own.       *)
(***************************************************************************)
EXTENDS Integers, Sequences, FiniteSets, TLC

VARIABLES
    doc,              \* input_file_path and the format of the file behind it
    result,           \* what poller.result() answers: content and figures
    pc,               \* position of the running call
    md_content,       \* local md_content
    idx,              \* figure loop index (enumerate(result.figures))
    rgn,              \* position in figure.bounding_regions (1-based)
    img_description,  \* local img_description
    cropped_image,    \* local cropped_image: <<>> or <<bitmap>>
    disk,             \* output folder: file name -> bitmap written by the run
    calls,            \* history: the external calls and patches made, in order
    ret               \* <<>> until a value is returned, then <<value>>

vars == <<doc, result, pc, md_content, idx, rgn, img_description,
          cropped_image, disk, calls, ret>>

-----------------------------------------------------------------------------
(* Bounds of the model *)

MaxFigures == 2
MaxPieces == 4

-----------------------------------------------------------------------------
(* Python string helpers *)

Min(S) == CHOOSE x \in S : \A y \in S : x <= y

\* s[a:b] for 0 <= a, b (Python slice, clipped to the string)
Slice(s, a, b) == SubSeq(s, a + 1, IF b > Len(s) THEN Len(s) ELSE b)

\* sub occurs in s at 0-based position i
OccursAt(s, sub, i) ==
    /\ i >= 0
    /\ i + Len(sub) <= Len(s)
    /\ SubSeq(s, i + 1, i + Len(sub)) = sub

\* str.find(sub, start): lowest position >= start, or -1
Find(s, sub, start) ==
    LET hits == {i \in start..(Len(s) - Len(sub)) : OccursAt(s, sub, i)}
    IN  IF hits = {} THEN -1 ELSE Min(hits)

Digit(d) ==
    CASE d = 0 -> "0" [] d = 1 -> "1" [] d = 2 -> "2" [] d = 3 -> "3"
      [] d = 4 -> "4" [] d = 5 -> "5" [] d = 6 -> "6" [] d = 7 -> "7"
      [] d = 8 -> "8" [] d = 9 -> "9"

\* str(n) for n >= 0, as used by the f-strings
RECURSIVE str(_)
str(n) == IF n < 10 THEN <<Digit(n)>> ELSE str(n \div 10) \o <<Digit(n % 10)>>

MarkerPrefix == <<"!", "[", "]", "(", "f", "i", "g", "u", "r", "e", "s", "/">>

start_substring(i) == MarkerPrefix \o str(i) \o <<")">>

end_substring == <<"<", "/", "f", "i", "g", "u", "r", "e", ">">>

new_string(desc) ==
    <<"<", "!", "-", "-", " ", "F", "i", "g", "u", "r", "e", "C", "o", "n",
      "t", "e", "n", "t", "=", "\"">> \o desc \o <<"\"", " ", "-", "-", ">">>

\* a plausible slip: the closing tag is searched from the start of the text
update_figure_description_find0(md, desc, i) ==
    LET start_index == Find(md, start_substring(i), 0)
    IN  IF start_index # -1
        THEN LET start2 == start_index + Len(start_substring(i))
                 end_index == Find(md, end_substring, 0)
             IN  IF end_index # -1
                 THEN Slice(md, 0, start2) \o new_string(desc)
                        \o Slice(md, end_index, Len(md))
                 ELSE md
        ELSE md

\* a plausible slip: the missing-closing-tag test is left out, so the
\* slice md_content[-1:] (the last character) is appended
update_figure_description_nocheck(md, desc, i) ==
    LET start_index == Find(md, start_substring(i), 0)
    IN  IF start_index # -1
        THEN LET start2 == start_index + Len(start_substring(i))
                 end_index == Find(md, end_substring, start2)
             IN  Slice(md, 0, start2) \o new_string(desc)
                   \o (IF end_index # -1 THEN Slice(md, end_index, Len(md))
                       ELSE Slice(md, Len(md) - 1, Len(md)))
        ELSE md

\* a plausible slip: the annotation is inserted after the marker and the old
\* span is kept
update_figure_description_insert(md, desc, i) ==
    LET start_index == Find(md, start_substring(i), 0)
    IN  IF start_index # -1
        THEN LET start2 == start_index + Len(start_substring(i))
                 end_index == Find(md, end_substring, start2)
             IN  IF end_index # -1
                 THEN Slice(md, 0, start2) \o new_string(desc)
                        \o Slice(md, start2, Len(md))
                 ELSE md
        ELSE md

update_figure_description(md, desc, i) ==
    LET start_index == Find(md, start_substring(i), 0)
    IN  IF start_index # -1
        THEN LET start2 == start_index + Len(start_substring(i))
                 end_index == Find(md, end_substring, start2)
             IN  IF end_index # -1
                 THEN Slice(md, 0, start2) \o new_string(desc)
                        \o Slice(md, end_index, Len(md))
                 ELSE md
        ELSE md

-----------------------------------------------------------------------------
(* The document, the analyzer's answer and the description service *)

\* input documents: path parts, and the format PIL reports for the file
Docs ==
    { [stem |-> "doc",   ext |-> ".pdf",  format |-> "PDF"],
      [stem |-> "scan",  ext |-> ".tiff", format |-> "TIFF"],
      [stem |-> "photo", ext |-> "",      format |-> "PNG"] }

\* bounding regions: page_number and the 8-number polygon
BodyA   == [page_number |-> 1, polygon |-> <<1, 2, 5, 3, 6, 8, 0, 7>>]
BodyB   == [page_number |-> 2, polygon |-> <<2, 1, 7, 2, 8, 9, 1, 8>>]
CaptionR == [page_number |-> 1, polygon |-> <<1, 9, 5, 9, 5, 10, 1, 10>>]

\* figure.caption is None (<<>>) or a caption (<<caption>>)
Caption(text) == <<[content |-> text, bounding_regions |-> <<CaptionR>>]>>

\* figures the analyzer may report
FigureShapes ==
    { [caption |-> <<>>,           bounding_regions |-> <<BodyA>>],
      [caption |-> <<>>,           bounding_regions |-> <<BodyA, BodyB>>],
      [caption |-> Caption("Fig"), bounding_regions |-> <<BodyB, CaptionR>>],
      [caption |-> Caption("Fig"), bounding_regions |-> <<CaptionR>>] }

FigureLists ==
    UNION { [1..n -> FigureShapes] : n \in 0..MaxFigures }

\* result.figures is None (<<>>) or a list (<<list>>)
FiguresAnswers == {<<>>} \cup { <<fl>> : fl \in FigureLists }

\* markdown the analyzer may answer
OldBody == <<"o", "l", "d">>
Placeholder(i) == <<"t">> \o start_substring(i) \o OldBody \o end_substring

RECURSIVE MdAsc(_)
MdAsc(n) == IF n = 0 THEN <<>> ELSE MdAsc(n - 1) \o Placeholder(n - 1)

RECURSIVE MdDesc(_)
MdDesc(n) == IF n = 0 THEN <<>> ELSE Placeholder(n - 1) \o MdDesc(n - 1)

RECURSIVE MdOpen(_)
MdOpen(n) == IF n = 0 THEN <<>> ELSE MdOpen(n - 1) \o start_substring(n - 1) \o OldBody

Markdowns ==
    { MdAsc(n) : n \in 0..MaxFigures } \cup { MdDesc(n) : n \in 0..MaxFigures }
      \cup { MdOpen(MaxFigures) \o end_substring,      \* one closing tag shared
             MdOpen(1),                                \* marker, no closing tag
             MdAsc(MaxFigures) \o Placeholder(0) }     \* marker 0 twice

\* the document/markdown pairs explored: every document with the plain
\* markdown, and every markdown with the PDF document
PdfDoc == [stem |-> "doc", ext |-> ".pdf", format |-> "PDF"]

Inputs ==
    { in \in Docs \X Markdowns : in[1] = PdfDoc \/ in[2] = MdAsc(MaxFigures) }

\* texts the description service may answer: neither holds a marker or a
\* closing tag; the first followed by the second holds the marker of figure 1,
\* the second followed by the first holds a closing tag
AnswerA == <<"u", "r", "e", ">">> \o MarkerPrefix
AnswerB == <<"1", ")", "<", "/", "f", "i", "g">>

Descriptions == { AnswerA, AnswerB }

-----------------------------------------------------------------------------
(* Rasterizer *)

guess_type(ext) ==
    CASE ext = ".pdf"  -> "application/pdf"
      [] ext = ".tiff" -> "image/tiff"
      [] ext = ".png"  -> "image/png"
      [] OTHER         -> "None"

\* a plausible slip: the raster path scales the box like the PDF path
crop_image_from_image_scaled(d, page_number, bounding_box) ==
    [source |-> "image",
     page   |-> IF d.format = "TIFF" THEN page_number ELSE 0,
     rect   |-> [k \in 1..Len(bounding_box) |-> bounding_box[k] * 72]]

crop_image_from_image(d, page_number, bounding_box) ==
    [source |-> "image",
     page   |-> IF d.format = "TIFF" THEN page_number ELSE 0,
     rect   |-> bounding_box]

crop_image_from_pdf_page(d, page_number, bounding_box) ==
    [source |-> "pdf",
     page   |-> page_number,
     rect   |-> [k \in 1..Len(bounding_box) |-> bounding_box[k] * 72]]

crop_image_from_file(d, page_number, bounding_box) ==
    IF guess_type(d.ext) = "application/pdf"
    THEN crop_image_from_pdf_page(d, page_number, bounding_box)
    ELSE crop_image_from_image(d, page_number, bounding_box)

\* (polygon[0], polygon[1], polygon[4], polygon[5]), 0-based in the code
boundingbox(region) ==
    <<region.polygon[1], region.polygon[2], region.polygon[5], region.polygon[6]>>

\* a plausible slip: the figure index is left out of the file name
output_file_noidx(d, i) == <<d.stem, "_cropped_image_", <<>>, ".png">>

\* f"{file_name_without_extension}_cropped_image_{idx}.png"
output_file(d, i) == <<d.stem, "_cropped_image_", str(i), ".png">>

\* local_image_to_data_url: mime type guessed from the name, payload read back
local_image_to_data_url(files, name) ==
    [mime |-> IF guess_type(name[4]) = "None" THEN "application/octet-stream"
              ELSE guess_type(name[4]),
     payload |-> files[name]]

\* the text part of the user message
prompt(caption) ==
    IF caption # "" THEN <<"Describe this image (note: it has image caption: ", caption, "):">>
    ELSE <<"Describe this image:">>

\* preprocessing.preprocessing.convert_markdown_headings: a transform of the
\* markdown whose code is outside this file; kept opaque
convert_markdown_headings(md) == [normalized |-> md]

-----------------------------------------------------------------------------
(* analyze_layout *)

Ev(op, fig, reg, ok, val) == [op |-> op, fig |-> fig, reg |-> reg, ok |-> ok, val |-> val]

Figures == IF result.figures = <<>> THEN <<>> ELSE result.figures[1]

figure == Figures[idx + 1]

\* caption_region of the `if figure.caption:` branch; the else branch has none
caption_region(fig) ==
    IF fig.caption # <<>> THEN fig.caption[1].bounding_regions ELSE <<>>

InSeq(x, seq) == \E k \in 1..Len(seq) : seq[k] = x

\* a plausible slip: the caption branch forgets to filter the caption regions
is_body_region_all(fig, region) == TRUE

\* `region not in caption_region`; every region passes in the else branch
is_body_region(fig, region) == ~InSeq(region, caption_region(fig))

\* the caption argument of understand_image_with_gpt
caption_arg(fig) == IF fig.caption # <<>> THEN fig.caption[1].content ELSE ""

Init ==
    /\ \E in \in Inputs, figs \in FiguresAnswers :
          /\ doc = in[1]
          /\ result = [content |-> in[2], figures |-> figs]
    /\ pc = "analyze"
    /\ md_content = <<>>
    /\ idx = 0
    /\ rgn = 0
    /\ img_description = <<>>
    /\ cropped_image = <<>>
    /\ disk = <<>>
    /\ calls = <<>>
    /\ ret = <<>>

\* a plausible slip: the failure is caught and the step is tried again
Raise_retry(op, fig, reg, val) ==
    /\ calls' = Append(calls, Ev(op, fig, reg, FALSE, val))
    /\ UNCHANGED <<doc, result, pc, md_content, idx, rgn, img_description,
                   cropped_image, disk, ret>>

\* an exception leaves analyze_layout: nothing is caught
Raise(op, fig, reg, val) ==
    /\ pc' = "raised"
    /\ calls' = Append(calls, Ev(op, fig, reg, FALSE, val))
    /\ UNCHANGED <<doc, result, md_content, idx, rgn, img_description,
                   cropped_image, disk, ret>>

\* lines 172-184: begin_analyze_document, poller.result(), `if result.figures:`
AnalyzeDocument ==
    /\ pc = "analyze"
    /\ \/ /\ md_content' = result.content
          /\ calls' = Append(calls, Ev("analyze", -1, 0, TRUE, <<>>))
          /\ pc' = IF Figures # <<>> THEN "for_figure" ELSE "normalize"
          /\ UNCHANGED <<doc, result, idx, rgn, img_description,
                         cropped_image, disk, ret>>
       \/ Raise("analyze", -1, 0, <<>>)

\* a plausible slip: img_description is initialised once, outside the loop
ForFigure_noreset ==
    /\ pc = "for_figure"
    /\ \/ /\ idx < Len(Figures)
          /\ rgn' = 1
          /\ pc' = "for_region"
          /\ UNCHANGED <<doc, result, md_content, idx, img_description,
                         cropped_image, disk, calls, ret>>
       \/ /\ idx >= Len(Figures)
          /\ pc' = "normalize"
          /\ UNCHANGED <<doc, result, md_content, idx, rgn, img_description,
                         cropped_image, disk, calls, ret>>

\* lines 186-198: the next figure of enumerate(result.figures), or loop exit
ForFigure ==
    /\ pc = "for_figure"
    /\ \/ /\ idx < Len(Figures)
          /\ img_description' = <<>>
          /\ rgn' = 1
          /\ pc' = "for_region"
          /\ UNCHANGED <<doc, result, md_content, idx, cropped_image, disk,
                         calls, ret>>
       \/ /\ idx >= Len(Figures)
          /\ pc' = "normalize"
          /\ UNCHANGED <<doc, result, md_content, idx, rgn, img_description,
                         cropped_image, disk, calls, ret>>

\* lines 199-200 and 220: the next region of figure.bounding_regions
ForRegion ==
    /\ pc = "for_region"
    /\ \/ /\ rgn <= Len(figure.bounding_regions)
          /\ is_body_region(figure, figure.bounding_regions[rgn])
          /\ pc' = "crop"
          /\ UNCHANGED rgn
       \/ /\ rgn <= Len(figure.bounding_regions)
          /\ ~is_body_region(figure, figure.bounding_regions[rgn])
          /\ rgn' = rgn + 1
          /\ UNCHANGED pc
       \/ /\ rgn > Len(figure.bounding_regions)
          /\ pc' = "patch"
          /\ UNCHANGED rgn
    /\ UNCHANGED <<doc, result, md_content, idx, img_description,
                   cropped_image, disk, calls, ret>>

\* lines 202-209 and 222-229: crop_image_from_file
CropImage ==
    /\ pc = "crop"
    /\ \/ LET region == figure.bounding_regions[rgn]
              page == region.page_number - 1
              box == boundingbox(region)
              image == crop_image_from_file(doc, page, box)
          IN  /\ cropped_image' = <<image>>
              /\ calls' = Append(calls, Ev("crop", idx, rgn, TRUE,
                                    [page |-> page, box |-> box, image |-> image]))
              /\ pc' = "save"
              /\ UNCHANGED <<doc, result, md_content, idx, rgn,
                             img_description, disk, ret>>
       \/ Raise("crop", idx, rgn, <<>>)

\* a plausible slip: the file is written only when it does not exist yet
SaveImage_keep_existing ==
    /\ pc = "save"
    /\ \/ /\ calls' = Append(calls, Ev("save", idx, rgn, TRUE, output_file(doc, idx)))
          /\ disk' = IF output_file(doc, idx) \in DOMAIN disk THEN disk
                     ELSE [n \in {output_file(doc, idx)} |-> cropped_image[1]]
          /\ pc' = "describe"
          /\ UNCHANGED <<doc, result, md_content, idx, rgn,
                         img_description, cropped_image, ret>>
       \/ Raise("save", idx, rgn, <<>>)

\* lines 210-214 and 230-234: cropped_image.save(cropped_image_filename)
SaveImage ==
    /\ pc = "save"
    /\ \/ LET name == output_file(doc, idx)
          IN  /\ disk' = [n \in DOMAIN disk \cup {name} |->
                             IF n = name THEN cropped_image[1] ELSE disk[n]]
              /\ calls' = Append(calls, Ev("save", idx, rgn, TRUE, name))
              /\ pc' = "describe"
              /\ UNCHANGED <<doc, result, md_content, idx, rgn,
                             img_description, cropped_image, ret>>
       \/ Raise("save", idx, rgn, <<>>)

\* lines 216 and 236: img_description += understand_image_with_gpt(...)
DescribeImage ==
    /\ pc = "describe"
    /\ \/ /\ output_file(doc, idx) \in DOMAIN disk
          /\ \E answer \in Descriptions :
                /\ img_description' = img_description \o answer
                /\ calls' = Append(calls, Ev("describe", idx, rgn, TRUE,
                        [caption |-> caption_arg(figure),
                         text |-> prompt(caption_arg(figure)),
                         url |-> local_image_to_data_url(disk, output_file(doc, idx)),
                         answer |-> answer]))
          /\ rgn' = rgn + 1
          /\ pc' = "for_region"
          /\ UNCHANGED <<doc, result, md_content, idx, cropped_image, disk, ret>>
       \/ Raise("describe", idx, rgn, [caption |-> caption_arg(figure)])

\* line 239: md_content = update_figure_description(md_content, img_description, idx)
PatchFigure ==
    /\ pc = "patch"
    /\ md_content' = update_figure_description(md_content, img_description, idx)
    /\ calls' = Append(calls, Ev("patch", idx, 0, TRUE, img_description))
    /\ idx' = idx + 1
    /\ pc' = "for_figure"
    /\ UNCHANGED <<doc, result, rgn, img_description, cropped_image, disk, ret>>

\* a plausible slip: the analyzer's markdown is normalised, not the patched one
NormalizeAndReturn_unpatched ==
    /\ pc = "normalize"
    /\ \/ /\ ret' = <<convert_markdown_headings(result.content)>>
          /\ calls' = Append(calls, Ev("normalize", -1, 0, TRUE, result.content))
          /\ pc' = "done"
          /\ UNCHANGED <<doc, result, md_content, idx, rgn, img_description,
                         cropped_image, disk>>
       \/ Raise("normalize", -1, 0, <<>>)

\* lines 241-243: convert_markdown_headings, return
NormalizeAndReturn ==
    /\ pc = "normalize"
    /\ \/ /\ ret' = <<convert_markdown_headings(md_content)>>
          /\ calls' = Append(calls, Ev("normalize", -1, 0, TRUE, md_content))
          /\ pc' = "done"
          /\ UNCHANGED <<doc, result, md_content, idx, rgn, img_description,
                         cropped_image, disk>>
       \/ Raise("normalize", -1, 0, <<>>)

Next ==
    \/ AnalyzeDocument
    \/ ForFigure
    \/ ForRegion
    \/ CropImage
    \/ SaveImage
    \/ DescribeImage
    \/ PatchFigure
    \/ NormalizeAndReturn

Spec == Init /\ [][Next]_vars

-----------------------------------------------------------------------------
(* update_figure_description on its own: one call on drawn arguments *)

Pieces ==
    { start_substring(0), start_substring(10), end_substring, <<"x">>,
      MarkerPrefix, <<"0", ")">> }

RECURSIVE Texts(_)
Texts(n) ==
    IF n = 0 THEN {<<>>}
    ELSE Texts(n - 1) \cup { t \o p : t \in Texts(n - 1), p \in Pieces }

PatchDescriptions == { <<"d">>, end_substring }

PatchIndexes == {0, 1, 10}

InitPatch ==
    /\ doc = PdfDoc
    /\ result = [content |-> <<>>, figures |-> <<>>]
    /\ pc = "patch_call"
    /\ md_content \in Texts(MaxPieces)
    /\ img_description \in PatchDescriptions
    /\ idx \in PatchIndexes
    /\ rgn = 0
    /\ cropped_image = <<>>
    /\ disk = <<>>
    /\ calls = <<>>
    /\ ret = <<>>

\* lines 132-153: the call and its return value
CallPatch ==
    /\ pc = "patch_call"
    /\ ret' = <<update_figure_description(md_content, img_description, idx)>>
    /\ pc' = "patch_returned"
    /\ UNCHANGED <<doc, result, md_content, idx, rgn, img_description,
                   cropped_image, disk, calls>>

NextPatch == CallPatch

SpecPatch == InitPatch /\ [][NextPatch]_vars

-----------------------------------------------------------------------------
(* Properties of update_figure_description, checked under SpecPatch *)

Marker == start_substring(idx)

MarkerPositions == {i \in 0..Len(md_content) : OccursAt(md_content, Marker, i)}

\* end of the first occurrence of the marker (when there is one)
MarkerEnd == Min(MarkerPositions) + Len(Marker)

ClosingPositions ==
    LET from == MarkerEnd
    IN  {j \in from..Len(md_content) : OccursAt(md_content, end_substring, j)}

\* C1: the text comes back unchanged when the marker `![](figures/<idx>)` does
\* not occur in it, and also when the marker occurs but no `</figure>` occurs
\* at or after the end of the marker's first occurrence.
C1_NoOpWhenMarkerOrClosingTagMissing ==
    (pc = "patch_returned"
       /\ (MarkerPositions = {} \/ ClosingPositions = {}))
    => ret = <<md_content>>

\* the marker occurs, is preceded by a closing tag, and none follows it
C1_Witness ==
    /\ pc = "patch_returned"
    /\ MarkerPositions # {}
    /\ ClosingPositions = {}
    /\ \E j \in 0..Len(md_content) : OccursAt(md_content, end_substring, j)
    /\ ret = <<md_content>>

\* C2: when the marker occurs and a `</figure>` follows it, the result is the
\* text up to and including the first marker, then
\* `<!-- FigureContent="<desc>" -->`, then the text from the start of the first
\* `</figure>` after that marker to the end.
C2_ReplacesSpanBetweenMarkerAndClosingTag ==
    (pc = "patch_returned" /\ MarkerPositions # {} /\ ClosingPositions # {})
    => LET close == Min(ClosingPositions)
       IN  ret = << SubSeq(md_content, 1, MarkerEnd)
                    \o <<"<", "!", "-", "-", " ", "F", "i", "g", "u", "r", "e",
                         "C", "o", "n", "t", "e", "n", "t", "=", "\"">>
                    \o img_description
                    \o <<"\"", " ", "-", "-", ">">>
                    \o SubSeq(md_content, close + 1, Len(md_content)) >>

\* a closing tag before the marker, text between marker and its closing tag
C2_Witness ==
    /\ pc = "patch_returned"
    /\ MarkerPositions # {}
    /\ ClosingPositions # {}
    /\ Min(ClosingPositions) > MarkerEnd
    /\ \E j \in 0..(Min(MarkerPositions) - 1) : OccursAt(md_content, end_substring, j)
    /\ ret # <<md_content>>

-----------------------------------------------------------------------------
(* Properties of analyze_layout, checked under Spec *)

NFigures == Len(Figures)

\* positions of the calls of one kind made for figure i
CallsOf(op, i) == {k \in 1..Len(calls) : calls[k].op = op /\ calls[k].fig = i}

Positions(op) == {k \in 1..Len(calls) : calls[k].op = op}

\* positions in figure i's bounding_regions that equal no caption region
NonCaptionPositions(i) ==
    LET fig == Figures[i + 1]
        capregions == IF fig.caption = <<>> THEN {}
                      ELSE {fig.caption[1].bounding_regions[k] :
                              k \in 1..Len(fig.caption[1].bounding_regions)}
    IN  {p \in 1..Len(fig.bounding_regions) : fig.bounding_regions[p] \notin capregions}

SetMax(S) == CHOOSE x \in S : \A y \in S : y <= x

\* the answers returned for figure i, concatenated in call order
RECURSIVE AnswersUpTo(_, _)
AnswersUpTo(i, k) ==
    IF k = 0 THEN <<>>
    ELSE AnswersUpTo(i, k - 1) \o
           (IF calls[k].op = "describe" /\ calls[k].fig = i /\ calls[k].ok
            THEN calls[k].val.answer ELSE <<>>)

Answers(i) == AnswersUpTo(i, Len(calls))

\* C3: for every figure the description service is invoked exactly once per
\* bounding region that is not a caption region, never for a caption region,
\* and each call passes the caption text, or the empty string without caption.
C3_DescribeOncePerNonCaptionRegion ==
    \A i \in 0..(NFigures - 1) :
        /\ \A k \in CallsOf("describe", i) :
              /\ calls[k].reg \in NonCaptionPositions(i)
              /\ Figures[i + 1].caption = <<>> => calls[k].val.caption = ""
              /\ Figures[i + 1].caption # <<>> =>
                    calls[k].val.caption = Figures[i + 1].caption[1].content
              /\ \A l \in CallsOf("describe", i) : l # k => calls[l].reg # calls[k].reg
        /\ pc = "done" =>
              {calls[k].reg : k \in CallsOf("describe", i)} = NonCaptionPositions(i)

\* a finished run with a captioned figure whose body region was described with
\* the caption text, its caption region skipped, and an uncaptioned figure
C3_Witness ==
    /\ pc = "done"
    /\ \E i \in 0..(NFigures - 1) :
          /\ Figures[i + 1].caption # <<>>
          /\ Len(Figures[i + 1].bounding_regions) = 2
          /\ \E k \in CallsOf("describe", i) : calls[k].val.caption = "Fig"
    /\ \E i \in 0..(NFigures - 1) :
          /\ Figures[i + 1].caption = <<>>
          /\ Cardinality(CallsOf("describe", i)) = 2

\* C4: one patch per figure, in enumeration order; the patch of figure i comes
\* after every description request of figure i and before any rasterization of
\* a later figure; its description is the concatenation, in region order, of
\* the answers for figure i (empty when it has no non-caption region).
C4_OnePatchPerFigureInOrder ==
    /\ \A k \in Positions("patch") :
          LET i == calls[k].fig
          IN  /\ Cardinality({l \in Positions("patch") : l < k}) = i
              /\ \A l \in 1..Len(calls) :
                    calls[l].op \in {"crop", "save", "describe"} =>
                        /\ calls[l].fig <= i => l < k
                        /\ calls[l].fig > i => l > k
              /\ calls[k].val = Answers(i)
              /\ \A a \in CallsOf("describe", i), b \in CallsOf("describe", i) :
                    a < b => calls[a].reg < calls[b].reg
    /\ pc \in {"crop", "save", "describe", "for_region", "patch"} =>
          Cardinality(Positions("patch")) = idx
    /\ pc = "done" => Cardinality(Positions("patch")) = NFigures

\* a finished run: one figure patched with an empty description, one with the
\* concatenation of two different answers
C4_Witness ==
    /\ pc = "done"
    /\ NFigures = 2
    /\ \E k \in Positions("patch") : calls[k].val = <<>>
    /\ \E k \in Positions("patch") :
          /\ Cardinality(CallsOf("describe", calls[k].fig)) = 2
          /\ calls[k].val = AnswerA \o AnswerB


\* the bitmap the rasterizer owes for position p of figure i
ExpectedCrop(i, p) ==
    LET region == Figures[i + 1].bounding_regions[p]
        poly == region.polygon
    IN  IF guess_type(doc.ext) = "application/pdf"
        THEN [source |-> "pdf", page |-> region.page_number - 1,
              rect |-> <<72 * poly[1], 72 * poly[2], 72 * poly[5], 72 * poly[6]>>]
        ELSE [source |-> "image",
              page |-> IF doc.format = "TIFF" THEN region.page_number - 1 ELSE 0,
              rect |-> <<poly[1], poly[2], poly[5], poly[6]>>]

FileOf(i) == <<doc.stem, "_cropped_image_", str(i), ".png">>

FiguresWithBody == {i \in 0..(NFigures - 1) : NonCaptionPositions(i) # {}}

PatchOf(i) == CHOOSE k \in Positions("patch") : calls[k].fig = i

\* the markdown after the first n patches of the run
RECURSIVE MdAfter(_)
MdAfter(n) ==
    IF n = 0 THEN result.content
    ELSE update_figure_description(MdAfter(n - 1), calls[PatchOf(n - 1)].val, n - 1)

Contains(s, sub) == \E j \in 0..Len(s) : OccursAt(s, sub, j)

Annotation(desc) ==
    <<"<", "!", "-", "-", " ", "F", "i", "g", "u", "r", "e", "C", "o", "n",
      "t", "e", "n", "t", "=", "\"">> \o desc \o <<"\"", " ", "-", "-", ">">>

\* every save of figure i goes to the one file named after i; a finished run
\* has written one file per figure with a non-caption region, holding the crop
\* of the last such region
FilesOfRun ==
    /\ \A k \in Positions("save") : calls[k].ok => calls[k].val = FileOf(calls[k].fig)
    /\ pc = "done" =>
          /\ DOMAIN disk = {FileOf(i) : i \in FiguresWithBody}
          /\ \A i \in FiguresWithBody :
                disk[FileOf(i)] = ExpectedCrop(i, SetMax(NonCaptionPositions(i)))

C6_FailurePropagatesWithoutRetry ==
    /\ \A k \in 1..Len(calls) :
          ~calls[k].ok => (k = Len(calls) /\ pc = "raised" /\ ret = <<>>)
    /\ pc = "raised" => (calls # <<>> /\ ~calls[Len(calls)].ok /\ ret = <<>>)
    /\ \A k \in 1..Len(calls), l \in 1..Len(calls) :
          (k < l /\ calls[k].op = calls[l].op
             /\ calls[k].op \in {"analyze", "crop", "save", "describe"})
          => (calls[k].fig # calls[l].fig \/ calls[k].reg # calls[l].reg)

\* a description request failed for the second figure, after the first figure
\* was described and patched
C6_Witness ==
    /\ pc = "raised"
    /\ calls[Len(calls)].op = "describe"
    /\ calls[Len(calls)].fig = 1
    /\ Positions("patch") # {}
    /\ ret = <<>>

\* C7: a successful run applies the heading normalizer once, last, after the
\* patch of the last figure, to the patched markdown, and returns its result;
\* without figures nothing is rasterized, described or patched and the
\* analyzer's markdown is what gets normalized.
C7_NormalizeOnceLast ==
    /\ ret # <<>> => pc = "done"
    /\ \A k \in Positions("normalize") : k = Len(calls)
    /\ pc = "done" =>
          /\ calls[Len(calls)].op = "normalize" /\ calls[Len(calls)].ok
          /\ calls[Len(calls)].val = MdAfter(Cardinality(Positions("patch")))
          /\ ret = <<[normalized |-> calls[Len(calls)].val]>>
          /\ NFigures > 0 =>
                /\ calls[Len(calls) - 1].op = "patch"
                /\ calls[Len(calls) - 1].fig = NFigures - 1
          /\ NFigures = 0 =>
                /\ Len(calls) = 2
                /\ calls[1].op = "analyze"
                /\ ret = <<[normalized |-> result.content]>>

\* a finished run with two figures whose patches changed the markdown
C7_Witness ==
    /\ pc = "done"
    /\ NFigures = 2
    /\ ret # <<>>
    /\ ret[1].normalized # result.content
    /\ ret[1].normalized = md_content

\* C8: the crop is dispatched on the guessed mime type: a PDF gets the clip
\* rectangle 72 times the box on the zero-indexed page, any other file gets the
\* box unchanged; the box is (polygon[0], polygon[1], polygon[4], polygon[5])
\* and the page index is page_number - 1.
C8_CropBoxAndScaling ==
    \A k \in Positions("crop") :
        calls[k].ok =>
          LET region == Figures[calls[k].fig + 1].bounding_regions[calls[k].reg]
              poly == region.polygon
              v == calls[k].val
          IN  /\ v.box = <<poly[1], poly[2], poly[5], poly[6]>>
              /\ v.page = region.page_number - 1
              /\ guess_type(doc.ext) = "application/pdf" =>
                    /\ v.image.source = "pdf"
                    /\ v.image.page = v.page
                    /\ v.image.rect = <<72 * v.box[1], 72 * v.box[2],
                                        72 * v.box[3], 72 * v.box[4]>>
              /\ guess_type(doc.ext) # "application/pdf" =>
                    /\ v.image.source = "image"
                    /\ v.image.rect = v.box

\* a crop of the second page of a file that is not a PDF
C8_Witness ==
    /\ doc.ext # ".pdf"
    /\ \E k \in Positions("crop") :
          /\ calls[k].ok
          /\ calls[k].val.page = 1
          /\ calls[k].val.image.rect = <<2, 1, 8, 9>>

\* C9: each region is rasterized, written, then described, with nothing in
\* between; when the description request reads the file, the file holds the
\* crop of the region being described.
C9_CropSaveDescribeInOrder ==
    /\ \A k \in Positions("describe") :
          /\ k >= 3
          /\ calls[k - 1].op = "save" /\ calls[k - 1].ok
          /\ calls[k - 2].op = "crop" /\ calls[k - 2].ok
          /\ \A l \in {k - 1, k - 2} :
                calls[l].fig = calls[k].fig /\ calls[l].reg = calls[k].reg
          /\ calls[k].ok =>
                calls[k].val.url.payload = ExpectedCrop(calls[k].fig, calls[k].reg)
    /\ \A k \in Positions("save") :
          /\ k >= 2
          /\ calls[k - 1].op = "crop" /\ calls[k - 1].ok
          /\ calls[k - 1].fig = calls[k].fig /\ calls[k - 1].reg = calls[k].reg
    /\ \A k \in Positions("crop") \cup Positions("save") :
          (calls[k].ok /\ k < Len(calls)) =>
              calls[k + 1].op = (IF calls[k].op = "crop" THEN "save" ELSE "describe")
    /\ pc = "describe" =>
          /\ FileOf(idx) \in DOMAIN disk
          /\ disk[FileOf(idx)] = ExpectedCrop(idx, rgn)

\* the second region of a figure is about to be described: the file already
\* held the first region's crop and now holds the second's
C9_Witness ==
    /\ pc = "describe"
    /\ rgn = 2
    /\ CallsOf("describe", idx) # {}
    /\ disk[FileOf(idx)] = ExpectedCrop(idx, 2)
    /\ ExpectedCrop(idx, 1) # ExpectedCrop(idx, 2)


\* positions of marker i and of the closing tags in the analyzer's markdown
MarkersIn(md, i) == {p \in 0..Len(md) : OccursAt(md, start_substring(i), p)}

SpanStart(md, i) == Min(MarkersIn(md, i)) + Len(start_substring(i))

ClosingsAfter(md, from) == {p \in from..Len(md) : OccursAt(md, end_substring, p)}

SpanEnd(md, i) == Min(ClosingsAfter(md, SpanStart(md, i)))

\* each figure index has exactly one marker, followed by its own closing tag
\* before any other figure's marker
WellFormed(md, n) ==
    /\ \A i \in 0..(n - 1) :
          /\ Cardinality(MarkersIn(md, i)) = 1
          /\ ClosingsAfter(md, SpanStart(md, i)) # {}
    /\ \A i \in 0..(n - 1), j \in 0..(n - 1) :
          i # j => \A p \in MarkersIn(md, j) :
                      ~(SpanStart(md, i) <= p /\ p <= SpanEnd(md, i))

\* the text holds no figure marker and no closing tag
Clean(text) ==
    /\ ~Contains(text, end_substring)
    /\ \A j \in 0..(MaxFigures + 9) : ~Contains(text, start_substring(j))

\* the analyzer's markdown with the span of every figure in `todo`, located in
\* that markdown, replaced by the figure's annotation; the text from position
\* p on that lies outside the spans is copied
RECURSIVE Respanned(_, _, _)
Respanned(md, todo, p) ==
    IF todo = {} THEN SubSeq(md, p + 1, Len(md))
    ELSE LET i == CHOOSE i \in todo :
                      \A j \in todo : SpanStart(md, i) <= SpanStart(md, j)
         IN  SubSeq(md, p + 1, SpanStart(md, i))
               \o Annotation(Answers(i))
               \o Respanned(md, todo \ {i}, SpanEnd(md, i))

FinishedAsRespanned ==
    md_content = Respanned(result.content, 0..(NFigures - 1), 0)

\* C10 as stated: when every figure has one marker with its own closing tag
\* and no returned description holds a marker or a closing tag, the finished
\* markdown has each figure's span replaced by its annotation and is otherwise
\* the analyzer's markdown.
C10_FrameGivenCleanAnswers ==
    (pc = "done"
       /\ WellFormed(result.content, NFigures)
       /\ \A k \in Positions("describe") : Clean(calls[k].val.answer))
    => FinishedAsRespanned

\* C10 amended: the same, when no figure's concatenated description holds a
\* marker or a closing tag.
C10_FrameGivenCleanDescriptions ==
    (pc = "done"
       /\ WellFormed(result.content, NFigures)
       /\ \A i \in 0..(NFigures - 1) : Clean(Answers(i)))
    => FinishedAsRespanned

\* a finished run over two placeholders, the later figure's first in the text,
\* with a two-answer description and every description clean
C10_Witness ==
    /\ pc = "done"
    /\ NFigures = 2
    /\ result.content = MdDesc(2)
    /\ WellFormed(result.content, NFigures)
    /\ \A i \in 0..(NFigures - 1) : Clean(Answers(i))
    /\ \E i \in 0..(NFigures - 1) : Cardinality(CallsOf("describe", i)) = 2
    /\ FinishedAsRespanned
    /\ md_content # result.content

====
